---- MODULE Spec2Model ----
(***************************************************************************)
(* Health monitoring and alert dispatch of the predictive-maintenance      *)
(* backend: the alert routes (/api/alerts/check, subscribe, unsubscribe    *)
(* and the background monitor), the manual prediction controller, the      *)
(* sensor-data request of the socket server, and the two health scorers.   *)
(* Times are milliseconds, as Date.now() gives them.                        *)
(***************************************************************************)
EXTENDS Integers, Sequences, FiniteSets, TLC

VARIABLES
    now,              \* Date.now()
    subscribedEmails, \* the Set of the alert routes, in insertion order
    sentAlerts,       \* the Map alertKey -> timestamp of the last recorded send
    chk,              \* the /api/alerts/check requests in flight
    mon,              \* the executions of the monitor's interval callback
    pr,               \* the POST /api/predict request (makePrediction)
    sd,               \* the POST /api/sensor-data request
    machineStatus,    \* machines.status of the machine the sensor data is about
    reading,          \* the reading handed to the health scorers
    scored,           \* what a health scorer returned for it
    rootCause,        \* what getRootCause returned for the reading
    machineData,      \* what buildMachineData returned
    connected,        \* the sockets connected to the socket.io server
    rooms,            \* the members of each machine_<id> room, in the order they joined
    received,         \* the sensor_update events each client has received
    published,        \* the sensor_update events the server has published
    subscribeCalls,   \* the subscribe_machine messages handled since the socket last left
    alert,            \* the call of emailService.sendHealthAlert
    monitoringInterval, \* the timer startMonitoring registered last, or NoTimer
    timers,           \* the interval timers that are active
    timerSeq,         \* the number of setInterval calls made
    ticks             \* the interval callbacks suspended at the await of a send

alertVars == <<now, subscribedEmails, sentAlerts, chk, mon>>
predictVars == <<pr>>
sensorVars == <<sd, machineStatus>>
scoreVars == <<reading, scored>>
machineVars == <<rootCause, machineData>>
socketVars == <<connected, rooms, received, published, subscribeCalls>>
mailVars == <<alert>>
timerVars == <<monitoringInterval, timers, timerSeq, ticks>>
vars == <<now, subscribedEmails, sentAlerts, chk, mon, pr, sd, machineStatus, reading, scored,
          rootCause, machineData, connected, rooms, received, published, subscribeCalls, alert,
          monitoringInterval, timers, timerSeq, ticks>>

(***************************************************************************)
(* Bounds of the model.                                                    *)
(***************************************************************************)
MaxCooldowns == 1
\* the instants the clock is read at: the multiples of the cooldown, and the
\* instants around the end of a cooldown that started at 0
Instants == {k * 180000 : k \in 0..MaxCooldowns} \cup {30000, 179000, 181000}
Emails == {"a@b.com", "c@d.com"}
EmailInputs == Emails \cup {"", "not-an-email"}
CheckIds == {1}
TickIds == {1}

NoRecord == -1
NoEmail == ""

(***************************************************************************)
(* The machine registry of the alert routes.                                *)
(***************************************************************************)
getMachines ==
    << [machineId |-> "MCH-001", status |-> "healthy",  healthScore |-> 87],
       [machineId |-> "MCH-002", status |-> "warning",  healthScore |-> 54],
       [machineId |-> "MCH-003", status |-> "critical", healthScore |-> 28],
       [machineId |-> "MCH-004", status |-> "healthy",  healthScore |-> 92],
       [machineId |-> "MCH-005", status |-> "warning",  healthScore |-> 63],
       [machineId |-> "MCH-006", status |-> "healthy",  healthScore |-> 79] >>

MachineIds == {getMachines[i].machineId : i \in 1..Len(getMachines)}

Keys == MachineIds \X Emails

IsCriticalMutant(m) == m.status # "healthy"
IsCritical(m) == m.status = "critical" \/ m.healthScore < 30

criticalMachinesMutant == getMachines
criticalMachines == SelectSeq(getMachines, IsCritical)

toEmailFormat(machine) ==
    [machine_id |-> machine.machineId,
     health_status |-> IF machine.status = "critical" THEN "CRITICAL" ELSE "WARNING"]

(***************************************************************************)
(* emailService.sendHealthAlert: which branch a health status takes.       *)
(* "mail" is a call of transporter.sendMail, awaited; the two other        *)
(* branches return at once.                                                 *)
(***************************************************************************)
sendHealthAlertMutant(health_status) ==
    IF health_status \in {"", "NORMAL", "HEALTHY"}
    THEN [route |-> "none", success |-> TRUE, skipped |-> TRUE]
    ELSE [route |-> "mail", success |-> FALSE, skipped |-> FALSE]

sendHealthAlert(health_status) ==
    IF health_status \in {"", "NORMAL", "HEALTHY"}
    THEN [route |-> "none", success |-> TRUE, skipped |-> TRUE]
    ELSE IF health_status \in {"CRITICAL", "WARNING"}
    THEN [route |-> "mail", success |-> FALSE, skipped |-> FALSE]
    ELSE [route |-> "unknown", success |-> FALSE, skipped |-> FALSE]

ThreeMinutes == 3 * 60 * 1000

\* /check, line 299: the pair is skipped
CheckSuppressedMutant(last, t) == last # NoRecord /\ last >= t - ThreeMinutes
CheckSuppressed(last, t) == last # NoRecord /\ last > t - ThreeMinutes

\* monitor, line 394: the pair is sent to
MonitorAllowedOnce(last, t) == last = NoRecord
MonitorAllowedMutant(last, t) == last = NoRecord \/ last < t - ThreeMinutes
MonitorAllowed(last, t) == last = NoRecord \/ last <= t - ThreeMinutes

\* sentAlerts.set(alertKey, {email, timestamp: Date.now()}) after a send
RecordSendMutant(sa, key, success, t) == [sa EXCEPT ![key] = t]
RecordSend(sa, key, success, t) == IF success THEN [sa EXCEPT ![key] = t] ELSE sa

(***************************************************************************)
(* POST /api/alerts/check.  A request is suspended only at the await of    *)
(* sendHealthAlert; everything between two awaits is one step.             *)
(***************************************************************************)
IdleCheck == [pc |-> "idle", emails |-> <<>>, i |-> 0, results |-> <<>>, message |-> ""]

\* the i-th (machine, recipient) pair of the nested loops, machines outermost
CheckPair(emails, i) ==
    [machine |-> criticalMachines[((i - 1) \div Len(emails)) + 1],
     email |-> emails[((i - 1) % Len(emails)) + 1]]

CheckResult(p, status) ==
    [machineId |-> p.machine.machineId, email |-> p.email, status |-> status]

RECURSIVE CheckLoop(_, _, _, _, _)
CheckLoop(emails, i, results, sa, t) ==
    IF i > Len(criticalMachines) * Len(emails)
    THEN [req |-> [pc |-> "done", emails |-> emails, i |-> i, results |-> results,
                   message |-> "Checked critical machines"],
          sa |-> sa]
    ELSE LET p == CheckPair(emails, i)
             key == <<p.machine.machineId, p.email>>
             r == sendHealthAlert(toEmailFormat(p.machine).health_status)
         IN  IF CheckSuppressed(sa[key], t)
             THEN CheckLoop(emails, i + 1, Append(results, CheckResult(p, "skipped")), sa, t)
             ELSE IF r.route = "mail"
             THEN [req |-> [pc |-> "send", emails |-> emails, i |-> i, results |-> results,
                            message |-> ""],
                   sa |-> sa]
             ELSE CheckLoop(emails, i + 1,
                            Append(results, CheckResult(p, IF r.success THEN "sent" ELSE "failed")),
                            RecordSend(sa, key, r.success, t), t)

\* Array.from(subscribedEmails), or the one address of the request body
emailsToNotify(email) == IF email # NoEmail THEN <<email>> ELSE subscribedEmails

CheckStart(c, email) ==
    /\ chk[c].pc \in {"idle", "done"}
    /\ IF Len(criticalMachines) = 0
       THEN /\ chk' = [chk EXCEPT ![c] = [IdleCheck EXCEPT !.pc = "done",
                                            !.message = "No critical machines found"]]
            /\ UNCHANGED sentAlerts
       ELSE IF Len(emailsToNotify(email)) = 0
       THEN /\ chk' = [chk EXCEPT ![c] = [IdleCheck EXCEPT !.pc = "done",
                                            !.message = "No subscribed emails to notify"]]
            /\ UNCHANGED sentAlerts
       ELSE LET n == CheckLoop(emailsToNotify(email), 1, <<>>, sentAlerts, now)
            IN  /\ chk' = [chk EXCEPT ![c] = n.req]
                /\ sentAlerts' = n.sa
    /\ UNCHANGED <<now, subscribedEmails, mon>>
    /\ UNCHANGED <<predictVars, sensorVars, scoreVars, machineVars, socketVars, mailVars, timerVars>>

\* the for loops go on to the next pair whatever the result of the send was
ContinueAtMutant(i, last, success) == IF success THEN i + 1 ELSE last + 1
ContinueAt(i, last, success) == i + 1

\* transporter.sendMail settles: the request resumes after line 309
CheckSendDone(c, success) ==
    /\ chk[c].pc = "send"
    /\ LET r == chk[c]
           p == CheckPair(r.emails, r.i)
           key == <<p.machine.machineId, p.email>>
           sa == RecordSend(sentAlerts, key, success, now)
           n == CheckLoop(r.emails,
                          ContinueAt(r.i, Len(criticalMachines) * Len(r.emails), success),
                          Append(r.results, CheckResult(p, IF success THEN "sent" ELSE "failed")),
                          sa, now)
       IN  /\ chk' = [chk EXCEPT ![c] = n.req]
           /\ sentAlerts' = n.sa
    /\ UNCHANGED <<now, subscribedEmails, mon>>
    /\ UNCHANGED <<predictVars, sensorVars, scoreVars, machineVars, socketVars, mailVars, timerVars>>

(***************************************************************************)
(* The monitor's interval callback.  It iterates the live Set: a for-of    *)
(* over a Set visits, in insertion order, the entries present when it      *)
(* reaches them; it is the index of the entry the suspended loop is at.    *)
(***************************************************************************)
IdleTick == [pc |-> "idle", mi |-> 0, nx |-> 0, email |-> NoEmail, outcome |-> "none",
             evald |-> {}, stable |-> {}]

RECURSIVE MonitorLoop(_, _, _, _, _, _, _)
MonitorLoop(mi, nx, outcome, evald, stable, sa, t) ==
    IF mi > Len(criticalMachines)
    THEN [tick |-> [pc |-> "done", mi |-> mi, nx |-> 0, email |-> NoEmail,
                    outcome |-> outcome, evald |-> evald, stable |-> stable],
          sa |-> sa]
    ELSE IF nx > Len(subscribedEmails)
    THEN MonitorLoop(mi + 1, 1, outcome, evald, stable, sa, t)
    ELSE LET machine == criticalMachines[mi]
             email == subscribedEmails[nx]
             key == <<machine.machineId, email>>
             r == sendHealthAlert(toEmailFormat(machine).health_status)
             seen == evald \cup {key}
         IN  IF ~MonitorAllowed(sa[key], t)
             THEN MonitorLoop(mi, nx + 1, outcome, seen, stable, sa, t)
             ELSE IF r.route = "mail"
             THEN [tick |-> [pc |-> "send", mi |-> mi, nx |-> nx + 1, email |-> email,
                             outcome |-> outcome, evald |-> seen, stable |-> stable],
                   sa |-> sa]
             ELSE MonitorLoop(mi, nx + 1, IF r.success THEN "sent" ELSE "failed", seen, stable,
                              RecordSend(sa, key, r.success, t), t)

RangeOf(s) == {s[j] : j \in 1..Len(s)}

MonitorTick(t) ==
    /\ mon[t].pc \in {"idle", "done"}
    /\ IF Len(criticalMachines) = 0 \/ Len(subscribedEmails) = 0
       THEN /\ mon' = [mon EXCEPT ![t] = [IdleTick EXCEPT !.pc = "done"]]
            /\ UNCHANGED sentAlerts
       ELSE LET n == MonitorLoop(1, 1, "none", {}, RangeOf(subscribedEmails), sentAlerts, now)
            IN  /\ mon' = [mon EXCEPT ![t] = n.tick]
                /\ sentAlerts' = n.sa
    /\ UNCHANGED <<now, subscribedEmails, chk>>
    /\ UNCHANGED <<predictVars, sensorVars, scoreVars, machineVars, socketVars, mailVars, timerVars>>

\* transporter.sendMail settles: the callback resumes after line 395
MonitorSendDone(t, success) ==
    /\ mon[t].pc = "send"
    /\ LET r == mon[t]
           key == <<criticalMachines[r.mi].machineId, r.email>>
           sa == RecordSend(sentAlerts, key, success, now)
           n == MonitorLoop(r.mi, r.nx, IF success THEN "sent" ELSE "failed", r.evald, r.stable,
                            sa, now)
       IN  /\ mon' = [mon EXCEPT ![t] = n.tick]
           /\ sentAlerts' = n.sa
    /\ UNCHANGED <<now, subscribedEmails, chk>>
    /\ UNCHANGED <<predictVars, sensorVars, scoreVars, machineVars, socketVars, mailVars, timerVars>>

(***************************************************************************)
(* POST /api/alerts/subscribe and DELETE /api/alerts/unsubscribe.          *)
(***************************************************************************)
emailRegexTest(email) == email \in Emails

IndexOf(s, x) == IF x \in RangeOf(s) THEN CHOOSE j \in 1..Len(s) : s[j] = x ELSE 0

RemoveAt(s, j) == [k \in 1..(Len(s) - 1) |-> IF k < j THEN s[k] ELSE s[k + 1]]

Subscribe(email) ==
    /\ IF email = NoEmail \/ ~emailRegexTest(email)
       THEN UNCHANGED subscribedEmails
       ELSE subscribedEmails' = IF email \in RangeOf(subscribedEmails)
                                THEN subscribedEmails
                                ELSE Append(subscribedEmails, email)
    /\ UNCHANGED <<now, sentAlerts, chk, mon>>
    /\ UNCHANGED <<predictVars, sensorVars, scoreVars, machineVars, socketVars, mailVars, timerVars>>

\* A suspended for-of keeps its place in the Set: when an entry before the
\* next one to visit is deleted, the entries after it move up by one.
Unsubscribe(email) ==
    /\ IF email = NoEmail \/ email \notin RangeOf(subscribedEmails)
       THEN UNCHANGED <<subscribedEmails, mon>>
       ELSE LET j == IndexOf(subscribedEmails, email)
            IN  /\ subscribedEmails' = RemoveAt(subscribedEmails, j)
                /\ mon' = [t \in TickIds |->
                             IF mon[t].pc = "send"
                             THEN [mon[t] EXCEPT !.nx = IF j < @ THEN @ - 1 ELSE @,
                                                 !.stable = @ \ {email}]
                             ELSE mon[t]]
    /\ UNCHANGED <<now, sentAlerts, chk>>
    /\ UNCHANGED <<predictVars, sensorVars, scoreVars, machineVars, socketVars, mailVars, timerVars>>

Advance(t) ==
    /\ t > now
    /\ now' = t
    /\ UNCHANGED <<subscribedEmails, sentAlerts, chk, mon>>
    /\ UNCHANGED <<predictVars, sensorVars, scoreVars, machineVars, socketVars, mailVars, timerVars>>

(***************************************************************************)
(* startMonitoring and the interval timer.  setInterval calls the callback *)
(* whenever the interval has elapsed, whether or not an earlier call of    *)
(* it is still suspended at the await of a send; a send is pending for as  *)
(* long as the mail server takes.  The first call of startMonitoring is    *)
(* the one made when the module loads.                                      *)
(***************************************************************************)
MaxStarts == 3
MaxTicks == 2
NoTimer == 0

clearIntervalMutant(ts, id) == ts
clearInterval(ts, id) == ts \ {id}

startMonitoring ==
    /\ timerSeq < MaxStarts
    /\ timerSeq' = timerSeq + 1
    /\ timers' = (IF monitoringInterval # NoTimer
                  THEN clearInterval(timers, monitoringInterval)
                  ELSE timers) \cup {timerSeq + 1}
    /\ monitoringInterval' = timerSeq + 1
    /\ UNCHANGED <<ticks, alertVars, predictVars, sensorVars, scoreVars, machineVars,
                   socketVars, mailVars>>

\* the interval of an active timer elapses: the callback runs to its first await
TimerFire(id) ==
    /\ id \in timers
    /\ Len(ticks) < MaxTicks
    /\ IF Len(criticalMachines) = 0 \/ Len(subscribedEmails) = 0
       THEN UNCHANGED <<ticks, sentAlerts>>
       ELSE LET n == MonitorLoop(1, 1, "none", {}, RangeOf(subscribedEmails), sentAlerts, now)
            IN  /\ ticks' = IF n.tick.pc = "send" THEN Append(ticks, n.tick) ELSE ticks
                /\ sentAlerts' = n.sa
    /\ UNCHANGED <<now, subscribedEmails, chk, mon, monitoringInterval, timers, timerSeq>>
    /\ UNCHANGED <<predictVars, sensorVars, scoreVars, machineVars, socketVars, mailVars>>

\* transporter.sendMail settles for the k-th suspended callback
TickSendDone(k, success) ==
    /\ k \in 1..Len(ticks)
    /\ LET r == ticks[k]
           key == <<criticalMachines[r.mi].machineId, r.email>>
           sa == RecordSend(sentAlerts, key, success, now)
           n == MonitorLoop(r.mi, r.nx, IF success THEN "sent" ELSE "failed", r.evald, r.stable,
                            sa, now)
       IN  /\ ticks' = IF n.tick.pc = "send" THEN [ticks EXCEPT ![k] = n.tick]
                       ELSE RemoveAt(ticks, k)
           /\ sentAlerts' = n.sa
    /\ UNCHANGED <<now, subscribedEmails, chk, mon, monitoringInterval, timers, timerSeq>>
    /\ UNCHANGED <<predictVars, sensorVars, scoreVars, machineVars, socketVars, mailVars>>

(***************************************************************************)
(* The health scorers.  Readings are fixed-point: temperature and current  *)
(* in tenths, vibration in hundredths.  The three normalised inputs are    *)
(* in 1/4000, the degradation score in 1/400000, and a predicted RUL, as   *)
(* well as its noise term, in 1/3200 of a cycle (400000 / maxRUL).         *)
(***************************************************************************)
maxRUL == 125
ScoreUnit == 4000 * 100
RulUnit == ScoreUnit \div maxRUL

Clamp01(x) == IF x < 0 THEN 0 ELSE IF x > 4000 THEN 4000 ELSE x
Max0(x) == IF x > 0 THEN x ELSE 0
\* Math.round of a / b, b > 0
MathRound(a, b) == (2 * a + b) \div (2 * b)

tempNorm(temperature) == Clamp01(5 * (temperature - 200))
vibNorm(vibration) == Clamp01(4 * vibration)
curNorm(current) == Clamp01(16 * (current - 50))

degradationScoreMutant(temperature, vibration, current) ==
    35 * tempNorm(temperature)

degradationScore(temperature, vibration, current) ==
    35 * tempNorm(temperature) + 40 * vibNorm(vibration) + 25 * curNorm(current)

\* Math.max(0, maxRUL * (1 - degradationScore) + noise)
predictedRUL(temperature, vibration, current, noise) ==
    Max0(ScoreUnit - degradationScore(temperature, vibration, current) + noise)

\* (Math.random() - 0.5) * 5 and (Math.random() - 0.5) * 10, Math.random() in [0, 1)
RunNoise == {-8000, 0, 7999}
SimNoise == {-16000, 0, 15999}

\* machineRoutes.runPrediction
runPrediction(temperature, vibration, current, noise) ==
    LET rul == predictedRUL(temperature, vibration, current, noise)
        healthPercentage == MathRound(rul * 100, maxRUL * RulUnit)
    IN  [fn |-> "runPrediction",
         healthPercentage |-> healthPercentage,
         predictedRUL |-> rul,
         rul |-> MathRound(rul, 4 * RulUnit),
         status |-> IF healthPercentage > 70 THEN "healthy"
                    ELSE IF healthPercentage >= 40 THEN "warning" ELSE "critical",
         riskLevel |-> IF healthPercentage > 70 THEN "low"
                       ELSE IF healthPercentage >= 40 THEN "medium" ELSE "high"]

\* predictionController.simulatePrediction; it returns no risk level
simulatePrediction(temperature, vibration, current, noise) ==
    LET rul == predictedRUL(temperature, vibration, current, noise)
    IN  [fn |-> "simulatePrediction",
         healthPercentage |-> MathRound(rul * 100, maxRUL * RulUnit),
         predictedRUL |-> rul,
         rul |-> MathRound(rul * 100, RulUnit),
         status |-> IF rul > 80 * RulUnit THEN "HEALTHY"
                    ELSE IF rul > 40 * RulUnit THEN "WARNING" ELSE "CRITICAL",
         riskLevel |-> "undefined"]

NoScore == [fn |-> "none"]

Temperatures == {200, 750, 751, 800, 950, 1000}
Vibrations == {0, 200, 300, 301, 400, 401, 500, 625, 650, 725, 750, 1000}
Currents == {50, 120, 200, 201, 300}
Readings == [temperature : Temperatures, vibration : Vibrations, current : Currents]
NoReading == [temperature |-> 200, vibration |-> 0, current |-> 50]

\* GET /api/machines/:id/live and buildMachineData score a reading with runPrediction
ScoreRun(noise) ==
    /\ scored' = runPrediction(reading.temperature, reading.vibration, reading.current, noise)
    /\ UNCHANGED <<reading, alertVars, predictVars, sensorVars, machineVars, socketVars, mailVars, timerVars>>

\* makePrediction scores a reading with simulatePrediction
ScoreSimulate(noise) ==
    /\ scored' = simulatePrediction(reading.temperature, reading.vibration, reading.current, noise)
    /\ UNCHANGED <<reading, alertVars, predictVars, sensorVars, machineVars, socketVars, mailVars, timerVars>>

(***************************************************************************)
(* machineRoutes.getRootCause: the first rule that matches, in the order   *)
(* of the if-else chain; null for a healthy machine.                        *)
(***************************************************************************)
Statuses == {"healthy", "warning", "critical"}

BearingDegradation == "Bearing degradation detected"
ThermalOverload == "Thermal overload"
ElectricalImbalance == "Electrical imbalance"
MechanicalMisalignment == "Mechanical misalignment"
MultipleStressFactors == "Multiple stress factors"

getRootCauseMutant(status, temperature, vibration, current) ==
    IF status = "healthy" THEN "null"
    ELSE IF temperature > 750 THEN ThermalOverload
    ELSE IF vibration > 400 THEN BearingDegradation
    ELSE IF current > 200 THEN ElectricalImbalance
    ELSE IF vibration > 300 THEN MechanicalMisalignment
    ELSE MultipleStressFactors

getRootCause(status, temperature, vibration, current) ==
    IF status = "healthy" THEN "null"
    ELSE IF vibration > 400 THEN BearingDegradation
    ELSE IF temperature > 750 THEN ThermalOverload
    ELSE IF current > 200 THEN ElectricalImbalance
    ELSE IF vibration > 300 THEN MechanicalMisalignment
    ELSE MultipleStressFactors

NoRootCause == [status |-> "none", cause |-> "none"]

\* buildMachineData classifies the reading of a machine of the given status
ScoreRootCause(status) ==
    /\ rootCause' = [status |-> status,
                     cause |-> getRootCause(status, reading.temperature, reading.vibration,
                                            reading.current)]
    /\ UNCHANGED <<machineData, alertVars, predictVars, sensorVars, scoreVars, socketVars, mailVars, timerVars>>

(***************************************************************************)
(* machineRoutes.generateLiveSensorData and buildMachineData.  Health is   *)
(* in thousandths; degradationRate in thousandths, volatility in tenths.   *)
(* Math.sin(now / 30000) + Math.cos(now / 45000) ranges over [-2, 1.634],  *)
(* whatever instant the process started at, and is in thousandths; so are  *)
(* the values of Math.random() - 0.5.                                       *)
(***************************************************************************)
machineConfigs ==
    << [machineId |-> "MCH-001", baseHealth |-> 87000, degradationRate |-> 20,  volatility |-> 5],
       [machineId |-> "MCH-002", baseHealth |-> 54000, degradationRate |-> 80,  volatility |-> 15],
       [machineId |-> "MCH-003", baseHealth |-> 28000, degradationRate |-> 150, volatility |-> 20],
       [machineId |-> "MCH-004", baseHealth |-> 92000, degradationRate |-> 10,  volatility |-> 3],
       [machineId |-> "MCH-005", baseHealth |-> 63000, degradationRate |-> 60,  volatility |-> 12],
       [machineId |-> "MCH-006", baseHealth |-> 79000, degradationRate |-> 30,  volatility |-> 8] >>

ElapsedMinutes == {0, 600}
SinCos == {-2000, 0, 1630}
Randoms == {-500, 0, 499}

\* Math.max(5, Math.min(98, currentHealth))
ClampHealth(h) == IF h < 5000 THEN 5000 ELSE IF h > 98000 THEN 98000 ELSE h

currentHealthMutant(config, elapsedMinutes, sincos, random) ==
    LET degradation == (config.degradationRate * elapsedMinutes) \div 10
        randomWalk == (sincos * config.volatility * 3) \div 10
        noise == random * config.volatility * 4
    IN  ClampHealth(config.baseHealth - degradation + randomWalk + noise)

currentHealth(config, elapsedMinutes, sincos, random) ==
    LET degradation == (config.degradationRate * elapsedMinutes) \div 10
        randomWalk == (sincos * config.volatility * 3) \div 10
        noise == (random * config.volatility * 4) \div 10
    IN  ClampHealth(config.baseHealth - degradation + randomWalk + noise)

\* the three readings, rounded to 0.1, 0.01 and 0.1; random is the sequence of
\* the four values Math.random() - 0.5 takes in the call
generateLiveSensorData(config, elapsedMinutes, sincos, random) ==
    LET health == currentHealth(config, elapsedMinutes, sincos, random[1])
        deficit == 100000 - health
    IN  [currentHealth |-> health,
         temperature |-> MathRound((400 + (random[2] * 80) \div 1000) * 2000 + deficit * 9, 2000),
         vibration |-> MathRound((30 + (random[3] * 80) \div 1000) * 500 + deficit * 3, 500),
         current |-> MathRound((100 + (random[4] * 20) \div 1000) * 2500 + deficit * 3, 2500)]

buildMachineData(config, elapsedMinutes, sincos, random, noise) ==
    LET sensorData == generateLiveSensorData(config, elapsedMinutes, sincos, random)
        prediction == runPrediction(sensorData.temperature, sensorData.vibration,
                                    sensorData.current, noise)
    IN  [machineId |-> config.machineId,
         healthScore |-> prediction.healthPercentage,
         rul |-> prediction.rul,
         status |-> prediction.status,
         riskLevel |-> prediction.riskLevel,
         rootCause |-> getRootCause(prediction.status, sensorData.temperature,
                                    sensorData.vibration, sensorData.current),
         currentSensors |-> sensorData]

\* what a call of buildMachineData draws: the profile, the instant, and the
\* values of the generator's four calls of Math.random
MachineInputs ==
    [config : {machineConfigs[i] : i \in 1..Len(machineConfigs)},
     elapsedMinutes : ElapsedMinutes,
     sincos : SinCos,
     random : [1..4 -> Randoms]]

NoMachine ==
    [built |-> FALSE,
     in |-> [config |-> machineConfigs[1], elapsedMinutes |-> 0, sincos |-> 0,
             random |-> [j \in 1..4 |-> 0]]]

\* getMachines maps buildMachineData over the profiles; noise is the value of
\* the scorer's call of Math.random
BuildMachineData(noise) ==
    /\ machineData' = [built |-> TRUE, in |-> machineData.in,
                       data |-> buildMachineData(machineData.in.config,
                                                 machineData.in.elapsedMinutes,
                                                 machineData.in.sincos,
                                                 machineData.in.random, noise)]
    /\ UNCHANGED <<rootCause, alertVars, predictVars, sensorVars, scoreVars, socketVars, mailVars, timerVars>>

(***************************************************************************)
(* POST /api/predict: predictionController.makePrediction.  A field of the *)
(* request body is a JSON value; numbers are fixed-point as above.         *)
(***************************************************************************)
Undefined == [type |-> "undefined", num |-> 0]
Null == [type |-> "null", num |-> 0]
Num(n) == [type |-> "number", num |-> n]
\* a string holding the digits of a number, "95" say
NumStr(n) == [type |-> "numeric string", num |-> n]
\* a string holding no number, "hot" say
Str == [type |-> "string", num |-> 0]
EmptyStr == [type |-> "empty string", num |-> 0]
Bool == [type |-> "boolean", num |-> 1]

\* Number(v) is NaN
ToNumberIsNaN(v) == v.type \in {"undefined", "string"}
\* Number(v), scaled by unit; null and "" convert to 0, true to 1
ToNumber(v, unit) == IF v.type = "boolean" THEN v.num * unit ELSE v.num

isNaN(v) == ToNumberIsNaN(v)

\* machine_readings: FLOAT NOT NULL columns take a number or its text
PgFloatNotNull(v) == v.type \in {"number", "numeric string"}

TemperatureInputs == {Undefined, Null, Str, Bool, NumStr(950), Num(200), Num(1000)}
VibrationInputs == {Undefined, Null, NumStr(200), Num(0), Num(625), Num(1000)}
CurrentInputs == {Undefined, EmptyStr, Num(50)}
UserEmails == {NoEmail, "a@b.com"}
Bodies == [machine_id : {"MCH-003"}, temperature : TemperatureInputs,
           vibration : VibrationInputs, current : CurrentInputs, user_email : UserEmails]

IdlePredict ==
    [pc |-> "idle", body |-> [machine_id |-> "MCH-003", temperature |-> Undefined,
                              vibration |-> Undefined, current |-> Undefined,
                              user_email |-> NoEmail],
     code |-> 0, readingStored |-> FALSE, predictionStored |-> FALSE,
     prediction |-> NoScore, alertCalls |-> 0, emailResult |-> "null"]

\* Step 5: send email alert if WARNING or CRITICAL
PredictAlertsMutant(user_email, healthStatus) ==
    user_email # NoEmail /\ healthStatus = "CRITICAL"
PredictAlerts(user_email, healthStatus) ==
    user_email # NoEmail /\ healthStatus \in {"WARNING", "CRITICAL"}

PredictStart(body) ==
    /\ pr.pc \in {"idle", "done"}
    /\ LET fields == {body.temperature, body.vibration, body.current}
       IN  IF \E v \in fields : v.type = "undefined"
           THEN pr' = [IdlePredict EXCEPT !.pc = "done", !.body = body, !.code = 400]
           ELSE IF \E v \in fields : isNaN(v)
           THEN pr' = [IdlePredict EXCEPT !.pc = "done", !.body = body, !.code = 400]
           ELSE pr' = [IdlePredict EXCEPT !.pc = "insertReading", !.body = body]
    /\ UNCHANGED <<alertVars, sensorVars, scoreVars, machineVars, socketVars, mailVars, timerVars>>

\* Step 1 and Step 2: the INSERT settles, the prediction is computed
PredictInsertReading(dbOk, noise) ==
    /\ pr.pc = "insertReading"
    /\ LET b == pr.body
       IN  IF dbOk /\ \A v \in {b.temperature, b.vibration, b.current} : PgFloatNotNull(v)
           THEN pr' = [pr EXCEPT !.pc = "updateRul", !.readingStored = TRUE,
                                 !.prediction = simulatePrediction(ToNumber(b.temperature, 10),
                                                                   ToNumber(b.vibration, 100),
                                                                   ToNumber(b.current, 10), noise)]
           ELSE pr' = [pr EXCEPT !.pc = "done", !.code = 500]
    /\ UNCHANGED <<alertVars, sensorVars, scoreVars, machineVars, socketVars, mailVars, timerVars>>

\* Step 3
PredictUpdateRul(dbOk) ==
    /\ pr.pc = "updateRul"
    /\ pr' = IF dbOk THEN [pr EXCEPT !.pc = "insertPrediction"]
             ELSE [pr EXCEPT !.pc = "done", !.code = 500]
    /\ UNCHANGED <<alertVars, sensorVars, scoreVars, machineVars, socketVars, mailVars, timerVars>>

\* Step 4 and Step 5: the INSERT settles, sendHealthAlert is called or not
PredictInsertPrediction(dbOk) ==
    /\ pr.pc = "insertPrediction"
    /\ IF ~dbOk
       THEN pr' = [pr EXCEPT !.pc = "done", !.code = 500]
       ELSE IF PredictAlerts(pr.body.user_email, pr.prediction.status)
       THEN LET r == sendHealthAlert(pr.prediction.status)
            IN  IF r.route = "mail"
                THEN pr' = [pr EXCEPT !.pc = "send", !.predictionStored = TRUE, !.alertCalls = @ + 1]
                ELSE pr' = [pr EXCEPT !.pc = "done", !.code = 201, !.predictionStored = TRUE,
                                      !.alertCalls = @ + 1,
                                      !.emailResult = IF r.skipped THEN "skipped" ELSE "failed"]
       ELSE pr' = [pr EXCEPT !.pc = "done", !.code = 201, !.predictionStored = TRUE]
    /\ UNCHANGED <<alertVars, sensorVars, scoreVars, machineVars, socketVars, mailVars, timerVars>>

\* transporter.sendMail settles: the response is sent
PredictSendDone(success) ==
    /\ pr.pc = "send"
    /\ pr' = [pr EXCEPT !.pc = "done", !.code = 201,
                        !.emailResult = IF success THEN "sent" ELSE "failed"]
    /\ UNCHANGED <<alertVars, sensorVars, scoreVars, machineVars, socketVars, mailVars, timerVars>>

(***************************************************************************)
(* POST /api/sensor-data of the socket server.  The request works in one   *)
(* database transaction: tx holds the rows written and not yet committed.  *)
(* previous is the status the committed UPDATE replaced; the request never *)
(* reads it.                                                                *)
(***************************************************************************)
IdleSensor ==
    [pc |-> "idle", code |-> 0, failedAt |-> "none", health_status |-> "none",
     newStatus |-> "none",
     tx |-> {}, committed |-> {}, recipients |-> {}, emailCalled |-> FALSE,
     emailSent |-> FALSE, emitted |-> <<>>, previous |-> "none"]

HealthStatuses == {"NORMAL", "WARNING", "CRITICAL"}
Recipients == {"ops@plant.com"}

\* catch: ROLLBACK, 500; failedAt is the statement that threw
Rollback(r) == [r EXCEPT !.pc = "done", !.code = 500, !.tx = {}, !.failedAt = r.pc]

\* line 1034: create alert if WARNING or CRITICAL
CreatesAlertMutant(health_status) == health_status = "CRITICAL"
CreatesAlert(health_status) == health_status # "NORMAL"

\* lines 1072-1079: the alert is emitted whatever sendAlertEmail returned
AlertEventsMutant(emailSent) == IF emailSent THEN <<"new_alert">> ELSE <<>>
AlertEvents(emailSent) == <<"new_alert">>

\* lines 1083-1099
UpdateEvents == <<"machine_update", "sensor_update">>

\* BEGIN and the SELECT of the machine
SensorStart(known, dbOk) ==
    /\ sd.pc \in {"idle", "done"}
    /\ sd' = IF ~dbOk THEN Rollback(IdleSensor)
             ELSE IF ~known THEN [IdleSensor EXCEPT !.pc = "done", !.code = 404]
             ELSE [IdleSensor EXCEPT !.pc = "insertReading"]
    /\ UNCHANGED <<machineStatus, alertVars, predictVars, scoreVars, machineVars, socketVars, mailVars, timerVars>>

SensorInsertReading(dbOk) ==
    /\ sd.pc = "insertReading"
    /\ sd' = IF dbOk THEN [sd EXCEPT !.pc = "getPrediction", !.tx = @ \cup {"reading"}]
             ELSE Rollback(sd)
    /\ UNCHANGED <<machineStatus, alertVars, predictVars, scoreVars, machineVars, socketVars, mailVars, timerVars>>

SensorGetPredictionMutant(prediction) ==
    /\ sd.pc = "getPrediction"
    /\ sd' = [sd EXCEPT !.pc = "storePrediction", !.health_status = prediction]
    /\ UNCHANGED <<machineStatus, alertVars, predictVars, scoreVars, machineVars, socketVars,
                   mailVars, timerVars>>

\* getPrediction: the ML API answers, or fails and null is returned
SensorGetPrediction(prediction) ==
    /\ sd.pc = "getPrediction"
    /\ sd' = IF prediction = "null"
             THEN [sd EXCEPT !.pc = "commit", !.health_status = "null"]
             ELSE [sd EXCEPT !.pc = "storePrediction", !.health_status = prediction]
    /\ UNCHANGED <<machineStatus, alertVars, predictVars, scoreVars, machineVars, socketVars, mailVars, timerVars>>

SensorStorePrediction(dbOk) ==
    /\ sd.pc = "storePrediction"
    /\ sd' = IF dbOk THEN [sd EXCEPT !.pc = "updateMachine", !.tx = @ \cup {"prediction"}]
             ELSE Rollback(sd)
    /\ UNCHANGED <<machineStatus, alertVars, predictVars, scoreVars, machineVars, socketVars, mailVars, timerVars>>

\* UPDATE machines SET status; a NORMAL reading goes on to the two update events
SensorUpdateMachine(dbOk) ==
    /\ sd.pc = "updateMachine"
    /\ LET newStatus == IF sd.health_status = "NORMAL" THEN "NORMAL"
                        ELSE IF sd.health_status = "WARNING" THEN "WARNING" ELSE "CRITICAL"
       IN  sd' = IF ~dbOk THEN Rollback(sd)
                 ELSE IF CreatesAlert(sd.health_status)
                 THEN [sd EXCEPT !.pc = "insertAlert", !.tx = @ \cup {"status"},
                                 !.newStatus = newStatus]
                 ELSE [sd EXCEPT !.pc = "commit", !.tx = @ \cup {"status"},
                                 !.newStatus = newStatus, !.emitted = @ \o UpdateEvents]
    /\ UNCHANGED <<machineStatus, alertVars, predictVars, scoreVars, machineVars, socketVars, mailVars, timerVars>>

SensorInsertAlert(dbOk) ==
    /\ sd.pc = "insertAlert"
    /\ sd' = IF dbOk THEN [sd EXCEPT !.pc = "recipients", !.tx = @ \cup {"alert"}]
             ELSE Rollback(sd)
    /\ UNCHANGED <<machineStatus, alertVars, predictVars, scoreVars, machineVars, socketVars, mailVars, timerVars>>

\* The SELECT of the recipients settles and sendAlertEmail is called: without
\* SMTP_USER or without recipients it returns false at once.
SensorRecipients(dbOk, recipients, smtpUser) ==
    /\ sd.pc = "recipients"
    /\ sd' = IF ~dbOk THEN Rollback(sd)
             ELSE IF ~smtpUser \/ recipients = {}
             THEN [sd EXCEPT !.pc = "updateAlert", !.recipients = recipients,
                             !.emailCalled = TRUE, !.emailSent = FALSE]
             ELSE [sd EXCEPT !.pc = "sendMail", !.recipients = recipients, !.emailCalled = TRUE]
    /\ UNCHANGED <<machineStatus, alertVars, predictVars, scoreVars, machineVars, socketVars, mailVars, timerVars>>

\* emailTransporter.sendMail settles
SensorSendMailDone(success) ==
    /\ sd.pc = "sendMail"
    /\ sd' = [sd EXCEPT !.pc = "updateAlert", !.emailSent = success]
    /\ UNCHANGED <<machineStatus, alertVars, predictVars, scoreVars, machineVars, socketVars, mailVars, timerVars>>

\* UPDATE alerts SET email_sent, then the three emits
SensorUpdateAlert(dbOk) ==
    /\ sd.pc = "updateAlert"
    /\ sd' = IF dbOk
             THEN [sd EXCEPT !.pc = "commit",
                             !.emitted = @ \o AlertEvents(sd.emailSent) \o UpdateEvents]
             ELSE Rollback(sd)
    /\ UNCHANGED <<machineStatus, alertVars, predictVars, scoreVars, machineVars, socketVars, mailVars, timerVars>>

\* UPDATE machines SET status = $1, once committed: the row's old status is not read
UpdateStatusMutant(tx, newStatus, oldStatus) ==
    IF "status" \in tx /\ ~(oldStatus = "CRITICAL" /\ newStatus = "NORMAL")
    THEN newStatus ELSE oldStatus
UpdateStatus(tx, newStatus, oldStatus) ==
    IF "status" \in tx THEN newStatus ELSE oldStatus

SensorCommit(dbOk) ==
    /\ sd.pc = "commit"
    /\ IF dbOk
       THEN /\ sd' = [sd EXCEPT !.pc = "done", !.code = 200, !.tx = {}, !.committed = sd.tx,
                                !.previous = IF "status" \in sd.tx THEN machineStatus ELSE @]
            /\ machineStatus' = UpdateStatus(sd.tx, sd.newStatus, machineStatus)
       ELSE /\ sd' = Rollback(sd)
            /\ UNCHANGED machineStatus
    /\ UNCHANGED <<alertVars, predictVars, scoreVars, machineVars, socketVars, mailVars, timerVars>>

(***************************************************************************)
(* The socket.io server: io.on('connection') and the sensor_update event.  *)
(* A room is a Set of sockets: join adds a socket once, leave deletes it,  *)
(* and a socket that disconnects leaves every room.  io.to(room).emit      *)
(* hands the event to the sockets that are in the room at that moment;     *)
(* nothing is kept for a socket that is not.                                *)
(***************************************************************************)
MaxPublished == 2
MaxSubscribes == 2
Conns == {"s1", "s2"}
SocketMachines == {"MCH-001", "MCH-002"}

\* socket.join(room)
JoinMutant(room, c) == Append(room, c)
Join(room, c) == IF c \in RangeOf(room) THEN room ELSE Append(room, c)

\* socket.leave(room)
Leave(room, c) == SelectSeq(room, LAMBDA x : x # c)

\* the rooms after the socket has disconnected
LeaveAllMutant(rs, c) == rs
LeaveAll(rs, c) == [m \in SocketMachines |-> Leave(rs[m], c)]

\* io.to(`machine_${machine_id}`)
AudienceMutant(rs, m) == rs["MCH-001"] \o rs["MCH-002"]
Audience(rs, m) == rs[m]

SensorUpdateEvent(m, n) == [event |-> "sensor_update", machineId |-> m, n |-> n]

\* the client's io(SOCKET_URL), and every reconnection of it
SocketConnect(c) ==
    /\ c \notin connected
    /\ connected' = connected \cup {c}
    /\ UNCHANGED <<rooms, received, published, subscribeCalls>>
    /\ UNCHANGED <<alertVars, predictVars, sensorVars, scoreVars, machineVars, mailVars, timerVars>>

\* socket.on('subscribe_machine')
SubscribeMachine(c, m) ==
    /\ c \in connected
    /\ subscribeCalls[<<c, m>>] < MaxSubscribes
    /\ rooms' = [rooms EXCEPT ![m] = Join(@, c)]
    /\ subscribeCalls' = [subscribeCalls EXCEPT ![<<c, m>>] = @ + 1]
    /\ UNCHANGED <<connected, received, published>>
    /\ UNCHANGED <<alertVars, predictVars, sensorVars, scoreVars, machineVars, mailVars, timerVars>>

\* socket.on('unsubscribe_machine')
UnsubscribeMachine(c, m) ==
    /\ c \in connected
    /\ rooms' = [rooms EXCEPT ![m] = Leave(@, c)]
    /\ subscribeCalls' = [subscribeCalls EXCEPT ![<<c, m>>] = 0]
    /\ UNCHANGED <<connected, received, published>>
    /\ UNCHANGED <<alertVars, predictVars, sensorVars, scoreVars, machineVars, mailVars, timerVars>>

\* socket.on('disconnect')
SocketDisconnect(c) ==
    /\ c \in connected
    /\ connected' = connected \ {c}
    /\ rooms' = LeaveAll(rooms, c)
    /\ subscribeCalls' = [k \in Conns \X SocketMachines |->
                            IF k[1] = c THEN 0 ELSE subscribeCalls[k]]
    /\ UNCHANGED <<received, published>>
    /\ UNCHANGED <<alertVars, predictVars, sensorVars, scoreVars, machineVars, mailVars, timerVars>>

\* io.to(`machine_${machine_id}`).emit('sensor_update', ...): one delivery for
\* each entry of the room
PublishSensorUpdate(m) ==
    /\ Len(published) < MaxPublished
    /\ published' = Append(published, m)
    /\ received' = [c \in Conns |->
                      received[c] \o
                      [j \in 1..Len(SelectSeq(Audience(rooms, m), LAMBDA x : x = c)) |->
                          SensorUpdateEvent(m, Len(published) + 1)]]
    /\ UNCHANGED <<connected, rooms, subscribeCalls>>
    /\ UNCHANGED <<alertVars, predictVars, sensorVars, scoreVars, machineVars, mailVars, timerVars>>

(***************************************************************************)
(* emailService.sendHealthAlert as its callers see it: the call, and the   *)
(* settling of transporter.sendMail when the status is one it mails for.   *)
(***************************************************************************)
AlertStatuses == {"", "NORMAL", "HEALTHY", "WARNING", "CRITICAL", "UNKNOWN", "healthy", "OFFLINE"}

IdleAlert == [pc |-> "idle", toEmail |-> NoEmail, machine_id |-> "", health_status |-> "",
              success |-> FALSE, skipped |-> FALSE, error |-> FALSE, mails |-> 0]

SendHealthAlert(toEmail, machine_id, health_status) ==
    /\ alert.pc \in {"idle", "done"}
    /\ LET r == sendHealthAlert(health_status)
       IN  alert' = [pc |-> IF r.route = "mail" THEN "sendMail" ELSE "done",
                     toEmail |-> toEmail, machine_id |-> machine_id,
                     health_status |-> health_status,
                     success |-> r.success, skipped |-> r.skipped,
                     error |-> (r.route = "unknown"),
                     mails |-> IF r.route = "mail" THEN 1 ELSE 0]
    /\ UNCHANGED <<alertVars, predictVars, sensorVars, scoreVars, machineVars, socketVars, timerVars>>

\* sendCriticalAlert and sendWarningAlert: transporter.sendMail resolves or rejects
SendMailDone(ok) ==
    /\ alert.pc = "sendMail"
    /\ alert' = [alert EXCEPT !.pc = "done", !.success = ok, !.error = ~ok]
    /\ UNCHANGED <<alertVars, predictVars, sensorVars, scoreVars, machineVars, socketVars, timerVars>>

\* the variables a specification leaves at rest
InitRest ==
    /\ rootCause = NoRootCause
    /\ machineData = NoMachine
    /\ connected = {}
    /\ rooms = [m \in SocketMachines |-> <<>>]
    /\ received = [c \in Conns |-> <<>>]
    /\ published = <<>>
    /\ subscribeCalls = [k \in Conns \X SocketMachines |-> 0]
    /\ alert = IdleAlert
    /\ monitoringInterval = NoTimer
    /\ timers = {}
    /\ timerSeq = 0
    /\ ticks = <<>>

Init ==
    /\ now = 0
    /\ subscribedEmails = <<>>
    /\ sentAlerts = [k \in Keys |-> NoRecord]
    /\ chk = [c \in CheckIds |-> IdleCheck]
    /\ mon = [t \in TickIds |-> IdleTick]
    /\ pr = IdlePredict
    /\ sd = IdleSensor
    /\ machineStatus = "NORMAL"
    /\ reading = NoReading
    /\ scored = NoScore
    /\ InitRest

Next ==
    \/ \E c \in CheckIds, e \in Emails \cup {NoEmail} : CheckStart(c, e)
    \/ \E c \in CheckIds, ok \in BOOLEAN : CheckSendDone(c, ok)
    \/ \E t \in TickIds : MonitorTick(t)
    \/ \E t \in TickIds, ok \in BOOLEAN : MonitorSendDone(t, ok)
    \/ \E e \in EmailInputs : Subscribe(e)
    \/ \E e \in EmailInputs : Unsubscribe(e)
    \/ \E t \in Instants : Advance(t)

\* the alert routes: /check requests, monitor ticks, subscriptions, the clock
Spec == Init /\ [][Next]_vars

\* The manual prediction, started with or without a cooldown record for the
\* machine and recipient it is about.
InitPredict ==
    /\ now = 0
    /\ subscribedEmails = <<>>
    /\ sentAlerts \in {[k \in Keys |-> NoRecord],
                       [k \in Keys |-> IF k = <<"MCH-003", "a@b.com">> THEN 0 ELSE NoRecord]}
    /\ chk = [c \in CheckIds |-> IdleCheck]
    /\ mon = [t \in TickIds |-> IdleTick]
    /\ pr = IdlePredict
    /\ sd = IdleSensor
    /\ machineStatus = "NORMAL"
    /\ reading = NoReading
    /\ scored = NoScore
    /\ InitRest

NextPredict ==
    \/ \E body \in Bodies : PredictStart(body)
    \/ \E ok \in BOOLEAN, noise \in SimNoise : PredictInsertReading(ok, noise)
    \/ \E ok \in BOOLEAN : PredictUpdateRul(ok)
    \/ \E ok \in BOOLEAN : PredictInsertPrediction(ok)
    \/ \E ok \in BOOLEAN : PredictSendDone(ok)

SpecPredict == InitPredict /\ [][NextPredict]_vars

NextSensor ==
    \/ \E known \in BOOLEAN, ok \in BOOLEAN : SensorStart(known, ok)
    \/ \E ok \in BOOLEAN : SensorInsertReading(ok)
    \/ \E p \in HealthStatuses \cup {"null"} : SensorGetPrediction(p)
    \/ \E ok \in BOOLEAN : SensorStorePrediction(ok)
    \/ \E ok \in BOOLEAN : SensorUpdateMachine(ok)
    \/ \E ok \in BOOLEAN : SensorInsertAlert(ok)
    \/ \E ok \in BOOLEAN, rs \in SUBSET Recipients, smtp \in BOOLEAN : SensorRecipients(ok, rs, smtp)
    \/ \E ok \in BOOLEAN : SensorSendMailDone(ok)
    \/ \E ok \in BOOLEAN : SensorUpdateAlert(ok)
    \/ \E ok \in BOOLEAN : SensorCommit(ok)

SpecSensor == Init /\ [][NextSensor]_vars

\* the scorers, applied to every reading of Readings
InitScore ==
    /\ now = 0
    /\ subscribedEmails = <<>>
    /\ sentAlerts = [k \in Keys |-> NoRecord]
    /\ chk = [c \in CheckIds |-> IdleCheck]
    /\ mon = [t \in TickIds |-> IdleTick]
    /\ pr = IdlePredict
    /\ sd = IdleSensor
    /\ machineStatus = "NORMAL"
    /\ reading \in Readings
    /\ scored = NoScore
    /\ InitRest

NextScore ==
    \/ \E noise \in RunNoise : ScoreRun(noise)
    \/ \E noise \in SimNoise : ScoreSimulate(noise)
    \/ \E status \in Statuses : ScoreRootCause(status)

SpecScore == InitScore /\ [][NextScore]_vars

\* buildMachineData, applied to every profile, instant and draw of MachineInputs
InitMachine ==
    /\ now = 0
    /\ subscribedEmails = <<>>
    /\ sentAlerts = [k \in Keys |-> NoRecord]
    /\ chk = [c \in CheckIds |-> IdleCheck]
    /\ mon = [t \in TickIds |-> IdleTick]
    /\ pr = IdlePredict
    /\ sd = IdleSensor
    /\ machineStatus = "NORMAL"
    /\ reading = NoReading
    /\ scored = NoScore
    /\ rootCause = NoRootCause
    /\ machineData \in [built : {FALSE}, in : MachineInputs]
    /\ connected = {}
    /\ rooms = [m \in SocketMachines |-> <<>>]
    /\ received = [c \in Conns |-> <<>>]
    /\ published = <<>>
    /\ subscribeCalls = [k \in Conns \X SocketMachines |-> 0]
    /\ alert = IdleAlert
    /\ monitoringInterval = NoTimer
    /\ timers = {}
    /\ timerSeq = 0
    /\ ticks = <<>>

NextMachine == \E noise \in RunNoise : BuildMachineData(noise)

SpecMachine == InitMachine /\ [][NextMachine]_vars

\* the socket.io server and its clients
NextSocket ==
    \/ \E c \in Conns : SocketConnect(c)
    \/ \E c \in Conns, m \in SocketMachines : SubscribeMachine(c, m)
    \/ \E c \in Conns, m \in SocketMachines : UnsubscribeMachine(c, m)
    \/ \E c \in Conns : SocketDisconnect(c)
    \/ \E m \in SocketMachines : PublishSensorUpdate(m)

SpecSocket == Init /\ [][NextSocket]_vars

\* the email service, called with every status of AlertStatuses
NextMail ==
    \/ \E e \in Emails, m \in MachineIds, h \in AlertStatuses : SendHealthAlert(e, m, h)
    \/ \E ok \in BOOLEAN : SendMailDone(ok)

SpecMail == Init /\ [][NextMail]_vars

\* The monitor alone.  The interval timer fires and time passes, whatever
\* the mail server does: a send may take arbitrarily long to settle.
NextMonitor ==
    \/ \E t \in TickIds : MonitorTick(t)
    \/ \E t \in TickIds, ok \in BOOLEAN : MonitorSendDone(t, ok)
    \/ \E e \in EmailInputs : Subscribe(e)
    \/ \E e \in EmailInputs : Unsubscribe(e)
    \/ \E t \in Instants : Advance(t)

SpecMonitor ==
    /\ Init
    /\ [][NextMonitor]_vars
    /\ WF_vars(\E t \in TickIds : MonitorTick(t))
    /\ WF_vars(\E t \in Instants : Advance(t))

\* the monitor when every recipient's sends succeed time and again
SpecMonitorFair ==
    /\ SpecMonitor
    /\ \A e \in Emails :
           SF_vars(\E t \in TickIds : mon[t].email = e /\ MonitorSendDone(t, TRUE))

\* the interval timer: startMonitoring, the callbacks it starts, subscriptions and time
NextTimer ==
    \/ startMonitoring
    \/ \E id \in 1..MaxStarts : TimerFire(id)
    \/ \E k \in 1..MaxTicks : \E success \in BOOLEAN : TickSendDone(k, success)
    \/ \E email \in Emails : Subscribe(email)
    \/ \E t \in Instants : Advance(t)

SpecTimer == Init /\ [][NextTimer]_vars


(***************************************************************************)
(* Properties of the alert routes.                                          *)
(***************************************************************************)
CooldownMs == 180 * 1000

SendPermitted(last, t) == last = NoRecord \/ t - last >= CooldownMs

\* C1: no two sends are recorded for the same (machineId, recipient) key less
\* than the 3-minute cooldown apart: whenever a key's record is replaced, the
\* new timestamp is at least the cooldown after the one it replaces.
C1_NoTwoSendsWithinCooldown ==
    [][\A k \in Keys :
         (sentAlerts[k] # NoRecord /\ sentAlerts'[k] # sentAlerts[k])
             => sentAlerts'[k] - sentAlerts[k] >= CooldownMs]_vars

\* the results a /check request had before the step, and the pairs a tick had
\* evaluated before the step
OldResults(c) == IF chk[c].pc = "send" THEN Len(chk[c].results) ELSE 0
OldEvald(t) == IF mon[t].pc = "send" THEN mon[t].evald ELSE {}

\* C2: in /check and in the monitor tick a pair is sent to iff its key has no
\* record or now - lastSentAt >= 180 s, and is skipped otherwise.
C2_SendIffCooldownOver ==
    [][/\ \A c \in CheckIds :
            chk'[c] # chk[c] =>
              /\ \A j \in (OldResults(c) + 1)..Len(chk'[c].results) :
                   LET e == chk'[c].results[j]
                   IN  e.status = "skipped"
                         => ~SendPermitted(sentAlerts'[<<e.machineId, e.email>>], now)
              /\ chk'[c].pc = "send" =>
                   LET p == CheckPair(chk'[c].emails, chk'[c].i)
                   IN  SendPermitted(sentAlerts'[<<p.machine.machineId, p.email>>], now)
       /\ \A t \in TickIds :
            mon'[t] # mon[t] /\ mon[t].stable = mon'[t].stable =>
              \A k \in mon'[t].evald \ OldEvald(t) :
                  SendPermitted(sentAlerts'[k], now)
                    <=> /\ mon'[t].pc = "send"
                        /\ k = <<criticalMachines[mon'[t].mi].machineId, mon'[t].email>>]_vars

\* C2 witness: a send is attempted exactly 180 s after the key's recorded send
C2_Witness ==
    \E c \in CheckIds :
        /\ chk[c].pc = "send"
        /\ LET p == CheckPair(chk[c].emails, chk[c].i)
           IN  /\ sentAlerts[<<p.machine.machineId, p.email>>] # NoRecord
               /\ now - sentAlerts[<<p.machine.machineId, p.email>>] = 180000

\* C3: a failed send is reported as failed and leaves the record of its key
\* as it was: not created, not updated.
C3_FailedSendLeavesRecord ==
    [][/\ \A c \in CheckIds :
            (/\ chk[c].pc = "send"
             /\ chk'[c] # chk[c]
             /\ chk'[c].results[Len(chk[c].results) + 1].status = "failed")
                => sentAlerts' = sentAlerts
       /\ \A t \in TickIds :
            (mon[t].pc = "send" /\ mon'[t] # mon[t] /\ mon'[t].outcome = "failed"
               /\ mon'[t].stable = mon[t].stable)
                => sentAlerts' = sentAlerts]_vars

\* C3 witness: a /check request reports a pair as failed and its key has no record
C3_Witness ==
    \E c \in CheckIds : \E j \in 1..Len(chk[c].results) :
        /\ chk[c].results[j].status = "failed"
        /\ sentAlerts[<<chk[c].results[j].machineId, chk[c].results[j].email>>] = NoRecord

Emitted(e) == \E j \in 1..Len(sd.emitted) : sd.emitted[j] = e

\* sendAlertEmail has returned and the UPDATE of the alert row that follows
\* it has not thrown
SensorPastAlertUpdate ==
    /\ sd.emailCalled
    /\ sd.pc \notin {"sendMail", "updateAlert"}
    /\ ~(sd.pc = "done" /\ sd.failedAt = "updateAlert")

\* C4: when a reading is scored WARNING or CRITICAL and its alert email
\* fails or is skipped, new_alert and machine_update are still published
\* (the request going on past the statement that follows the send).
C4_EventsDespiteEmailFailure ==
    (/\ sd.health_status \in {"WARNING", "CRITICAL"}
     /\ SensorPastAlertUpdate
     /\ ~sd.emailSent)
        => Emitted("new_alert") /\ Emitted("machine_update")

\* C4 witness: a WARNING reading with a recipient, the send failed, the request answered 200
C4_Witness ==
    /\ sd.pc = "done" /\ sd.code = 200
    /\ sd.health_status = "WARNING"
    /\ sd.recipients # {} /\ sd.emailCalled /\ ~sd.emailSent
    /\ Emitted("new_alert") /\ Emitted("machine_update")

\* C6 as claimed: new_alert is published only if an alert send of the
\* evaluation succeeded.
C6_NewAlertOnlyAfterSend == Emitted("new_alert") => sd.emailSent

\* C6 amended: new_alert is published only in an evaluation scored WARNING
\* or CRITICAL, and in every such evaluation that completes, whether or not
\* a send succeeded.
C6_NewAlertWhateverTheSend ==
    /\ Emitted("new_alert") => sd.health_status \in {"WARNING", "CRITICAL"}
    /\ (sd.pc = "done" /\ sd.code = 200 /\ sd.health_status \in {"WARNING", "CRITICAL"})
          => Emitted("new_alert")

\* C6 witness: a CRITICAL evaluation completed with new_alert published and no send succeeded
C6_Witness ==
    /\ sd.pc = "done" /\ sd.code = 200
    /\ sd.health_status = "CRITICAL"
    /\ ~sd.emailSent
    /\ Emitted("new_alert")

(***************************************************************************)
(* Properties of the manual prediction.                                     *)
(***************************************************************************)
\* C7: a manual prediction that completes dispatches exactly one alert email
\* iff a recipient is supplied and the status is WARNING or CRITICAL,
\* whatever was sent before, and never touches the cooldown records.
C7_ManualPredictionNoCooldown ==
    [][/\ sentAlerts' = sentAlerts
       /\ (pr'.pc = "done" /\ pr'.code = 201) =>
             /\ pr'.alertCalls \in {0, 1}
             /\ pr'.alertCalls = 1
                  <=> /\ pr'.body.user_email # NoEmail
                      /\ pr'.prediction.status \in {"WARNING", "CRITICAL"}]_vars

\* C7 witness: an alert is sent for MCH-003 while the cooldown of the same
\* machine and recipient is running
C7_Witness ==
    /\ pr.pc = "done" /\ pr.code = 201
    /\ pr.body.machine_id = "MCH-003" /\ pr.body.user_email = "a@b.com"
    /\ sentAlerts[<<"MCH-003", "a@b.com">>] # NoRecord
    /\ now - sentAlerts[<<"MCH-003", "a@b.com">>] < 180000
    /\ pr.alertCalls = 1 /\ pr.emailResult = "sent"

\* C8: a request whose temperature, vibration or current is missing or not a
\* number is rejected with a 4xx before scoring: nothing is stored, nothing
\* is scored, no email is sent.
C8_MalformedInputRejected ==
    (/\ pr.pc # "idle"
     /\ \E v \in {pr.body.temperature, pr.body.vibration, pr.body.current} : v.type # "number")
        => /\ pr.pc = "done" /\ pr.code = 400
           /\ ~pr.readingStored /\ ~pr.predictionStored
           /\ pr.prediction = NoScore
           /\ pr.alertCalls = 0

(***************************************************************************)
(* Properties of the health scorers.                                        *)
(***************************************************************************)
Band(healthPercentage) ==
    IF healthPercentage > 70 THEN "HEALTHY"
    ELSE IF healthPercentage >= 40 THEN "WARNING" ELSE "CRITICAL"

Risk(healthPercentage) ==
    IF healthPercentage > 70 THEN "low"
    ELSE IF healthPercentage >= 40 THEN "medium" ELSE "high"

UpperCase(status) ==
    IF status = "healthy" THEN "HEALTHY"
    ELSE IF status = "warning" THEN "WARNING"
    ELSE IF status = "critical" THEN "CRITICAL" ELSE status

\* C9: the status (and the risk level, where one is returned) is the band of
\* healthPercentage: above 70 HEALTHY/low, 40 to 70 WARNING/medium, below 40
\* CRITICAL/high.
C9_StatusIsBandOfHealthPercentage ==
    scored.fn # "none" =>
        /\ UpperCase(scored.status) = Band(scored.healthPercentage)
        /\ scored.riskLevel # "undefined" => scored.riskLevel = Risk(scored.healthPercentage)

\* C10: healthPercentage is in [0, 100] and the RUL is >= 0, whatever the
\* reading and the noise.
C10_HealthPercentageInRange ==
    scored.fn # "none" =>
        /\ scored.healthPercentage \in 0..100
        /\ scored.predictedRUL >= 0 /\ scored.rul >= 0

(***************************************************************************)
(* Properties of the root-cause classifier.                                 *)
(***************************************************************************)
\* C11: getRootCause returns null iff the status is healthy; otherwise the
\* first matching rule wins, in the order vibration > 4, temperature > 75,
\* current > 20, vibration > 3, and the fallback when none matches.
C11_RootCauseFirstMatch ==
    rootCause.status # "none" =>
        LET t == reading.temperature
            v == reading.vibration
            c == reading.current
            cause == rootCause.cause
        IN  /\ cause = "null" <=> rootCause.status = "healthy"
            /\ rootCause.status # "healthy" =>
                  /\ cause = BearingDegradation <=> v > 400
                  /\ cause = ThermalOverload <=> (v <= 400 /\ t > 750)
                  /\ cause = ElectricalImbalance <=> (v <= 400 /\ t <= 750 /\ c > 200)
                  /\ cause = MechanicalMisalignment
                        <=> (v > 300 /\ v <= 400 /\ t <= 750 /\ c <= 200)
                  /\ cause = MultipleStressFactors <=> (v <= 300 /\ t <= 750 /\ c <= 200)

\* C11 witness: vibration 5 and temperature 80 classified as bearing degradation
C11_Witness ==
    /\ rootCause.status = "critical"
    /\ reading.vibration = 500 /\ reading.temperature = 800
    /\ rootCause.cause = BearingDegradation

OneResultPerPair(r) ==
    /\ Len(r.results) = Len(criticalMachines) * Len(r.emails)
    /\ \A j \in 1..Len(r.results) :
          /\ r.results[j].machineId = CheckPair(r.emails, j).machine.machineId
          /\ r.results[j].email = CheckPair(r.emails, j).email
          /\ r.results[j].status \in {"sent", "skipped", "failed"}

\* C13: a failed send aborts nothing: a /check request that went through its
\* loops ends with exactly one result for every pair, and a tick goes on
\* from a failed send to the next pair, or ends with every pair evaluated
\* and ready for the next tick.
C13_FailureAbortsNothing ==
    [][/\ \A c \in CheckIds :
            (chk'[c].pc = "done" /\ chk'[c].message = "Checked critical machines")
                => OneResultPerPair(chk'[c])
       /\ \A c \in CheckIds :
            (chk[c].pc = "send" /\ chk'[c] # chk[c])
                => /\ chk'[c].pc \in {"send", "done"}
                   /\ chk'[c].pc = "send" => Len(chk'[c].results) = chk'[c].i - 1
       /\ \A t \in TickIds :
            (mon[t].pc = "send" /\ mon'[t] # mon[t] /\ mon'[t].outcome = "failed"
               /\ mon'[t].stable = mon[t].stable)
                => \/ mon'[t].pc = "send"
                   \/ /\ mon'[t].pc = "done"
                      /\ \A i \in 1..Len(criticalMachines) : \A e \in mon'[t].stable :
                            <<criticalMachines[i].machineId, e>> \in mon'[t].evald]_vars

\* C13 witness: a /check request whose first send failed and which went on to
\* report a result for the second recipient
C13_Witness ==
    \E c \in CheckIds :
        /\ chk[c].pc = "done"
        /\ Len(chk[c].results) = 2
        /\ chk[c].results[1].status = "failed"
        /\ chk[c].results[2].status = "sent"

(***************************************************************************)
(* Properties of the email service.                                         *)
(***************************************************************************)
KnownStatuses == {"NORMAL", "HEALTHY", "WARNING", "CRITICAL"}

\* what the callers in the alert routes do with the result of the call
AlertLeavesNoRecord ==
    RecordSend(sentAlerts, <<alert.machine_id, alert.toEmail>>, alert.success, now) = sentAlerts

HealthyMachineIds ==
    {getMachines[i].machineId : i \in {j \in 1..Len(getMachines) : getMachines[j].status = "healthy"}}

Publishes == Len(published') = Len(published) + 1
PublishedMachine == published'[Len(published')]
PublishedEvent == SensorUpdateEvent(PublishedMachine, Len(published'))

Copies(room, c) == Len(SelectSeq(room, LAMBDA x : x = c))

\* C16: subscribing a connection to a machine twice is as subscribing it
\* once: it is in the room once, each sensor_update of the machine reaches
\* it exactly once, and one unsubscribe takes it out of the room, after which
\* nothing more reaches it.
C16_SubscribeIdempotent ==
    [][\A c \in Conns : \A m \in SocketMachines :
         /\ Copies(rooms'[m], c) <= 1
         /\ (Publishes /\ PublishedMachine = m) =>
               Len(received'[c]) = Len(received[c]) + (IF c \in RangeOf(rooms[m]) THEN 1 ELSE 0)
         /\ (subscribeCalls[<<c, m>>] > 0 /\ subscribeCalls'[<<c, m>>] = 0)
               => c \notin RangeOf(rooms'[m])]_vars

\* C16 witness: a connection that subscribed twice has received the one
\* published event once
C16_Witness ==
    /\ subscribeCalls[<<"s1", "MCH-001">>] = 2
    /\ published = <<"MCH-001">>
    /\ received["s1"] = <<SensorUpdateEvent("MCH-001", 1)>>

\* C17: a sensor_update of machine M reaches exactly the connections that
\* are in M's room when it is published, once each, and no other connection.
C17_DeliveredToSubscribersOnly ==
    [][Publishes =>
         \A c \in Conns :
             received'[c] = IF c \in RangeOf(rooms[PublishedMachine])
                            THEN Append(received[c], PublishedEvent)
                            ELSE received[c]]_vars

\* C17 witness: the event of MCH-001 reached its subscriber and not the
\* connection subscribed to MCH-002
C17_Witness ==
    /\ published = <<"MCH-001">>
    /\ received["s1"] = <<SensorUpdateEvent("MCH-001", 1)>>
    /\ "s2" \in connected /\ "s2" \in RangeOf(rooms["MCH-002"])
    /\ received["s2"] = <<>>

\* C18: a connection that has unsubscribed or disconnected receives nothing
\* more for that subscription; a connection that is not connected is in no
\* room; on connecting again it is handed nothing of what was published in
\* between and is in no room until it subscribes.
C18_NoReplayAfterReconnect ==
    [][\A c \in Conns :
         /\ c \notin connected' => \A m \in SocketMachines : c \notin RangeOf(rooms'[m])
         /\ (c \notin connected /\ c \in connected')
               => /\ received'[c] = received[c]
                  /\ \A m \in SocketMachines : c \notin RangeOf(rooms'[m])
         /\ received'[c] # received[c]
               => /\ Publishes
                  /\ c \in connected
                  /\ c \in RangeOf(rooms[PublishedMachine])
                  /\ received'[c] = Append(received[c], PublishedEvent)]_vars

\* C18 witness: a connection received the first event of MCH-001, missed the
\* second, and is subscribed again without having been handed it
C18_Witness ==
    /\ published = <<"MCH-001", "MCH-001">>
    /\ "s1" \in connected /\ "s1" \in RangeOf(rooms["MCH-001"])
    /\ received["s1"] = <<SensorUpdateEvent("MCH-001", 1)>>

(***************************************************************************)
(* Scenario B: the reading {temperature: 95, vibration: 2, current: 12}.   *)
(***************************************************************************)
ScenarioB == [temperature |-> 950, vibration |-> 200, current |-> 120]
ScenarioBScore == degradationScore(ScenarioB.temperature, ScenarioB.vibration, ScenarioB.current)
\* the reading of scenario B has been scored, by the named scorer with a zero noise term
ScenarioBScoredBy(fn) ==
    /\ reading = ScenarioB
    /\ scored.fn = fn
    /\ scored.predictedRUL = ScoreUnit - ScenarioBScore

\* C19 as stated: with a zero noise term the reading of scenario B has
\* tempNorm 0.9375, a degradation score of about 0.328, a predicted RUL of
\* about 84, a health percentage of about 67, status WARNING and risk medium.
C19_ScenarioBAsStated ==
    ScenarioBScoredBy("runPrediction") =>
        /\ tempNorm(reading.temperature) = 3750
        /\ ScenarioBScore >= 131000 /\ ScenarioBScore <= 133000
        /\ scored.predictedRUL >= 83 * RulUnit /\ scored.predictedRUL <= 85 * RulUnit
        /\ scored.healthPercentage \in 66..68
        /\ scored.status = "warning"
        /\ scored.riskLevel = "medium"

\* C19 amended: the reading of scenario B has tempNorm 0.9375 and a
\* degradation score of 0.478125; with a zero noise term its predicted RUL
\* is 65.234375 and its health percentage 52; for every noise term
\* runPrediction gives a health percentage in 50..54, status warning and
\* risk medium, and simulatePrediction gives one in 48..56 and status WARNING.
C19_ScenarioBScored ==
    (reading = ScenarioB /\ scored.fn # "none") =>
        /\ tempNorm(reading.temperature) = 3750
        /\ ScenarioBScore = 191250
        /\ ScenarioBScoredBy(scored.fn) =>
              /\ scored.predictedRUL = 208750
              /\ scored.healthPercentage = 52
        /\ scored.fn = "runPrediction" =>
              /\ scored.predictedRUL \in (208750 - 8000)..(208750 + 8000)
              /\ scored.healthPercentage \in 50..54
              /\ scored.status = "warning"
              /\ scored.riskLevel = "medium"
        /\ scored.fn = "simulatePrediction" =>
              /\ scored.predictedRUL \in (208750 - 16000)..(208750 + 16000)
              /\ scored.healthPercentage \in 48..56
              /\ scored.status = "WARNING"

\* C19 witness: runPrediction has scored the reading of scenario B with a
\* zero noise term
C19_Witness ==
    /\ ScenarioBScoredBy("runPrediction")
    /\ scored.healthPercentage = 52
    /\ scored.status = "warning"

(***************************************************************************)
(* Scenario A: the profile of MCH-001 at elapsed = 0.                       *)
(***************************************************************************)
ScenarioA ==
    /\ machineData.built
    /\ machineData.in.config = machineConfigs[1]
    /\ machineData.in.elapsedMinutes = 0

\* C20 as stated: for the profile {baseHealth: 87, degradationRate: 0.02,
\* volatility: 0.5} at elapsed = 0 and every value of the noise terms,
\* currentHealth is within [82, 92] and the scored status is healthy.
C20_ScenarioAAsStated ==
    ScenarioA =>
        /\ machineData.data.currentSensors.currentHealth \in 82000..92000
        /\ machineData.data.status = "healthy"

\* C20 amended: for that profile at elapsed = 0 and every value of the noise
\* terms, currentHealth is within [83, 90.445], inside [82, 92]; the health
\* score is within 69..86 and the status is healthy when it is above 70 and
\* warning otherwise; when the generator's random walk and draws are all
\* zero the health score is within 76..80 and the status healthy.
C20_ScenarioABounded ==
    ScenarioA =>
        /\ machineData.data.currentSensors.currentHealth \in 83000..90445
        /\ machineData.data.healthScore \in 69..86
        /\ machineData.data.status =
              IF machineData.data.healthScore > 70 THEN "healthy" ELSE "warning"
        /\ (machineData.in.sincos = 0 /\ \A j \in 1..4 : machineData.in.random[j] = 0)
              => /\ machineData.data.currentSensors.currentHealth = 87000
                 /\ machineData.data.healthScore \in 76..80
                 /\ machineData.data.status = "healthy"

\* C20 witness: the profile at elapsed = 0 with the random walk and the
\* draws at their lowest: currentHealth 83 and status warning
C20_Witness ==
    /\ ScenarioA
    /\ machineData.data.currentSensors.currentHealth = 83000
    /\ machineData.data.healthScore = 69
    /\ machineData.data.status = "warning"

(***************************************************************************)
(* Events of an evaluation.  Every emit of the program is in the           *)
(* sensor-data handler: sd.emitted is the log of io.emit calls.            *)
(***************************************************************************)
\* C21: when a monitor tick has run, a machine_update event has been
\* published, whatever the status of the machines and whether or not a
\* recipient is subscribed.
C21_TickPublishesMachineUpdate ==
    \A t \in TickIds :
        mon[t].pc = "done" => "machine_update" \in RangeOf(sd.emitted)

\* C22: in the evaluation of a reading the machine_update event is published
\* before the alert is dispatched and before the new_alert event: no
\* new_alert is in the log without an earlier machine_update, and the alert
\* email is not attempted before the machine_update is published.
C22_MachineUpdateBeforeAlert ==
    /\ \A i \in 1..Len(sd.emitted) :
           sd.emitted[i] = "new_alert"
               => \E j \in 1..(i - 1) : sd.emitted[j] = "machine_update"
    /\ sd.emailCalled => "machine_update" \in RangeOf(sd.emitted)

(***************************************************************************)
(* Properties of the interval timer.                                        *)
(***************************************************************************)
\* C23: the number of interval callbacks in flight at the same time stays
\* bounded: it stays below the bound the model gives it, which it could
\* only do if a firing were skipped or the overlap limited.
C23_OverlapBounded == Len(ticks) < MaxTicks

\* C30: once startMonitoring has been called, exactly one interval timer is
\* active, and it is the one registered by the last call.
C30_OneActiveTimer ==
    timerSeq >= 1 => (Cardinality(timers) = 1 /\ timers = {monitoringInterval})

\* C30 witness: startMonitoring has been called again after the call made at
\* module load, and only the timer of the last call is active
C30_Witness ==
    /\ timerSeq >= 2
    /\ monitoringInterval = timerSeq
    /\ timers = {timerSeq}

(***************************************************************************)
(* Properties of the sensor-data request.                                   *)
(***************************************************************************)
\* the step commits the transaction of the request
SensorCommits == sd.pc = "commit" /\ sd'.pc = "done" /\ sd'.code = 200

\* C24: the status a machine has after an evaluation is the health status
\* predicted for the reading, whatever status the machine had before; an
\* evaluation without a prediction, or one rolled back, leaves the status
\* as it was.
C24_StatusFromReadingOnly ==
    [][machineStatus' = IF SensorCommits /\ "status" \in sd.tx
                        THEN sd.health_status
                        ELSE machineStatus]_vars

\* C24 witness: a machine that was CRITICAL is NORMAL after one evaluation
C24_Witness ==
    /\ sd.pc = "done" /\ sd.code = 200
    /\ sd.previous = "CRITICAL"
    /\ sd.health_status = "NORMAL"
    /\ machineStatus = "NORMAL"

\* C25: with the noise term at zero the two health scorers agree on every
\* reading: runPrediction and simulatePrediction return the same health
\* percentage and the same status.
C25_ScorersAgree ==
    scored.fn # "none" =>
        LET run == runPrediction(reading.temperature, reading.vibration, reading.current, 0)
            sim == simulatePrediction(reading.temperature, reading.vibration, reading.current, 0)
        IN  /\ run.healthPercentage = sim.healthPercentage
            /\ UpperCase(run.status) = sim.status

\* C26: when the transaction of a sensor-data request has been rolled back,
\* no event and no alert email of that request has gone out.
C26_EmitOnlyIfCommitted ==
    (sd.pc = "done" /\ sd.code = 500) => (sd.emitted = <<>> /\ ~sd.emailSent)

\* C27: when the prediction call has failed, the request stores the reading
\* and succeeds once its transaction commits, and in every case it leaves
\* the machine's status unchanged, writes no prediction, status or alert
\* row, calls no email send and emits no event.
C27_NullPredictionFrame ==
    [][sd.health_status = "null" =>
         /\ machineStatus' = machineStatus
         /\ sd'.tx \subseteq {"reading"}
         /\ ~sd'.emailCalled /\ ~sd'.emailSent
         /\ sd'.emitted = <<>>
         /\ sd'.recipients = {}
         /\ (sd'.pc = "done" /\ sd'.health_status = "null") =>
               \/ sd'.code = 200 /\ sd'.committed = {"reading"}
               \/ sd'.code = 500 /\ sd'.failedAt = "commit" /\ sd'.committed = {}]_vars

\* C27 witness: a request whose prediction call failed has succeeded, with
\* the reading stored and nothing else, and the status as it was
C27_Witness ==
    /\ sd.pc = "done" /\ sd.code = 200
    /\ sd.health_status = "null"
    /\ sd.committed = {"reading"}
    /\ sd.emitted = <<>>
    /\ machineStatus = "WARNING"

\* C27 as stated: whenever the prediction call has failed, the request ends
\* with the reading stored and a successful answer.
C27_NullPredictionSucceeds ==
    (sd.pc = "done" /\ sd.health_status = "null")
        => (sd.code = 200 /\ sd.committed = {"reading"})

(***************************************************************************)
(* Unsubscribing and the requests in progress.                              *)
(***************************************************************************)
\* the step starts a send of /check request c, or of tick t
CheckStartsSend(c) ==
    /\ chk'[c].pc = "send"
    /\ chk[c].pc # "send" \/ chk'[c].i # chk[c].i
MonitorStartsSend(t) ==
    /\ mon'[t].pc = "send"
    /\ subscribedEmails' = subscribedEmails
    /\ mon[t].pc # "send" \/ mon'[t].nx # mon[t].nx \/ mon'[t].mi # mon[t].mi

\* C28: a send that the monitor, or a /check request that names no email,
\* starts goes to an address that is subscribed when the send starts, also
\* when the tick or the request was in progress when the address was
\* unsubscribed.  A request with more than one recipient names no email.
C28_NoSendAfterUnsubscribe ==
    [][/\ \A c \in CheckIds :
            (CheckStartsSend(c) /\ Len(chk'[c].emails) > 1)
                => CheckPair(chk'[c].emails, chk'[c].i).email \in RangeOf(subscribedEmails)
       /\ \A t \in TickIds :
            MonitorStartsSend(t) => mon'[t].email \in RangeOf(subscribedEmails)]_vars

\* the monitor's half of C28, which holds: the tick iterates the live Set
C28_MonitorSendsToSubscribed ==
    [][\A t \in TickIds :
            MonitorStartsSend(t) => mon'[t].email \in RangeOf(subscribedEmails)]_vars

(***************************************************************************)
(* Liveness of the monitor.                                                 *)
(***************************************************************************)
Subscribed(e) == e \in RangeOf(subscribedEmails)

\* C29: with monitor ticks that keep coming and sends that succeed time and
\* again, every subscribed recipient is eventually sent an alert for every
\* critical machine, unless it unsubscribes; and when the cooldown of a
\* recorded send has expired, another send is eventually recorded, unless
\* the recipient unsubscribes.
C29_EventuallyAlerted ==
    \A e \in Emails : \A i \in 1..Len(criticalMachines) :
        /\ Subscribed(e)
             ~> (sentAlerts[<<criticalMachines[i].machineId, e>>] # NoRecord \/ ~Subscribed(e))
        /\ \A t \in Instants :
             (/\ Subscribed(e)
              /\ sentAlerts[<<criticalMachines[i].machineId, e>>] = t
              /\ now >= t + ThreeMinutes)
             ~> (sentAlerts[<<criticalMachines[i].machineId, e>>] > t \/ ~Subscribed(e))

\* C29 witness: a tick has sent to a subscribed recipient at the instant the
\* cooldown of a send made at 0 expires
C29_Witness ==
    /\ Subscribed("a@b.com")
    /\ now = ThreeMinutes
    /\ sentAlerts[<<"MCH-003", "a@b.com">>] = ThreeMinutes
    /\ \E t \in TickIds : mon[t].pc = "done" /\ mon[t].outcome = "sent"

====
